---- MODULE Spec2Model ----
(***************************************************************************)
(* A model of days-rs (src/src/main.rs): the run of the command-line tool, *)
(* its event store codec (read_events / write_events over a CSV file), the *)
(* classification of events against today, their presentation, and the    *)
(* birthday line.                                                          *)
(*                                                                         *)
(* Text is modelled as a sequence of one-character strings, so that        *)
(* formatting, parsing and CSV quoting are computed, not assumed.          *)
(* The text alphabet of the model holds no white space inside date fields; *)
(* chrono's skipping of white space before a number is therefore not       *)
(* modelled.                                                               *)
(***************************************************************************)
EXTENDS Integers, Sequences, FiniteSets, TLC

----------------------------------------------------------------------------
(* Calendar arithmetic (chrono::NaiveDate).                                *)

Digits == <<"0", "1", "2", "3", "4", "5", "6", "7", "8", "9">>

IsDigit(c) == \E v \in 0..9 : Digits[v + 1] = c

DigitVal(c) == CHOOSE v \in 0..9 : Digits[v + 1] = c

Abs(n) == IF n < 0 THEN -n ELSE n

Date(y, m, d) == [year |-> y, month |-> m, day |-> d]

IsLeapYear(y) == (y % 4 = 0 /\ y % 100 # 0) \/ y % 400 = 0

DaysInMonth(y, m) ==
    IF m = 2 THEN (IF IsLeapYear(y) THEN 29 ELSE 28)
    ELSE IF m \in {4, 6, 9, 11} THEN 30 ELSE 31

\* NaiveDate::from_ymd_opt: Some exactly for the dates of the proleptic
\* Gregorian calendar within chrono's year range.
from_ymd_opt(y, m, d) ==
    /\ y \in -262144..262143
    /\ m \in 1..12
    /\ d >= 1
    /\ d <= DaysInMonth(y, m)

RECURSIVE DaysBeforeMonth(_, _)
DaysBeforeMonth(y, m) ==
    IF m <= 1 THEN 0 ELSE DaysBeforeMonth(y, m - 1) + DaysInMonth(y, m - 1)

\* Datelike::ordinal: the day of the year, from 1.
Ordinal(date) == DaysBeforeMonth(date.year, date.month) + date.day

\* chrono's YEAR_DELTAS table: the leap days of the years [0, ym) of a
\* 400-year cycle (year 0 of the cycle is a leap year).
YearDeltas(ym) ==
    IF ym = 0 THEN 0 ELSE ((ym - 1) \div 4) - ((ym - 1) \div 100) + 1

yo_to_cycle(ym, ordinal) == ym * 365 + YearDeltas(ym) + ordinal - 1

\* A chrono Duration holding whole seconds is modelled by its seconds.
DurationDays(n) == n * 86400

\* NaiveDate::signed_duration_since(self, rhs), as chrono computes it: by
\* 400-year cycles of 146097 days.
signed_duration_since(self, rhs) ==
    DurationDays(
        ((self.year \div 400) - (rhs.year \div 400)) * 146097
        + yo_to_cycle(self.year % 400, Ordinal(self))
        - yo_to_cycle(rhs.year % 400, Ordinal(rhs)))

\* Duration::num_days: integer division of the seconds, truncating toward
\* zero as Rust's / does.
num_days(secs) ==
    IF secs >= 0 THEN secs \div 86400 ELSE -((-secs) \div 86400)

----------------------------------------------------------------------------
(* Date text: Display for NaiveDate (to_string) and                        *)
(* NaiveDate::parse_from_str(_, "%Y-%m-%d").                               *)

Pad2(n) == <<Digits[(n \div 10) + 1], Digits[(n % 10) + 1]>>

RECURSIVE DecimalDigits(_)
DecimalDigits(n) ==
    IF n < 10 THEN <<Digits[n + 1]>>
    ELSE DecimalDigits(n \div 10) \o <<Digits[(n % 10) + 1]>>

RECURSIVE ZeroPad(_, _)
ZeroPad(s, width) ==
    IF Len(s) >= width THEN s ELSE ZeroPad(<<"0">> \o s, width)

\* The year as Display writes it: four digits for 0..9999, otherwise
\* "{:+05}": an explicit sign and at least four digits.
FormatYear(y) ==
    IF y \in 0..9999 THEN Pad2(y \div 100) \o Pad2(y % 100)
    ELSE <<(IF y < 0 THEN "-" ELSE "+")>> \o ZeroPad(DecimalDigits(Abs(y)), 4)

\* event.date.to_string()
to_string(date) ==
    FormatYear(date.year) \o <<"-">> \o Pad2(date.month) \o <<"-">> \o Pad2(date.day)

\* scan::number(s, min, max) from position i: the value of the longest run
\* of at most max digits, an error when it has fewer than min digits.
RECURSIVE ScanDigits(_, _, _, _, _)
ScanDigits(s, i, max, taken, val) ==
    IF taken < max /\ i <= Len(s) /\ IsDigit(s[i])
    THEN ScanDigits(s, i + 1, max, taken + 1, val * 10 + DigitVal(s[i]))
    ELSE [taken |-> taken, val |-> val, next |-> i]

ScanNumber(s, i, min, max) ==
    LET r == ScanDigits(s, i, max, 0, 0)
    IN  [ok |-> r.taken >= min, val |-> r.val, next |-> r.next]

\* The %Y item: a sign allows any number of digits, no sign at most four.
ScanYear(s, i) ==
    IF i <= Len(s) /\ s[i] = "-"
    THEN LET r == ScanNumber(s, i + 1, 1, Len(s))
         IN  [ok |-> r.ok, val |-> -r.val, next |-> r.next]
    ELSE IF i <= Len(s) /\ s[i] = "+"
    THEN ScanNumber(s, i + 1, 1, Len(s))
    ELSE ScanNumber(s, i, 1, 4)

ScanLiteral(s, i, c) ==
    [ok |-> i <= Len(s) /\ s[i] = c, next |-> i + 1]

NoDate == [year |-> 0, month |-> 0, day |-> 0]

\* NaiveDate::parse_from_str(s, "%Y-%m-%d"): [ok, date]; ok is FALSE for
\* every Err (bad shape, trailing text, or no such calendar date).
parse_from_str(s) ==
    LET y  == ScanYear(s, 1)
        l1 == ScanLiteral(s, y.next, "-")
        m  == ScanNumber(s, l1.next, 1, 2)
        l2 == ScanLiteral(s, m.next, "-")
        d  == ScanNumber(s, l2.next, 1, 2)
        ok == /\ y.ok
              /\ l1.ok
              /\ m.ok
              /\ l2.ok
              /\ d.ok
              /\ d.next = Len(s) + 1
              /\ from_ymd_opt(y.val, m.val, d.val)
    IN  IF ok THEN [ok |-> TRUE, date |-> Date(y.val, m.val, d.val)]
        ELSE [ok |-> FALSE, date |-> NoDate]

----------------------------------------------------------------------------
(* CSV text: csv::Writer::write_record and the csv::Reader record scanner, *)
(* both with the crate's defaults (delimiter ',', quote '"', doubled       *)
(* quotes, writer terminator "\n", reader terminators "\r" and "\n").      *)

Comma == ","
Quote == "\""
LF == "\n"
CR == "\r"

IsTerminator(c) == c \in {LF, CR}

\* A writer that quotes a field only for the delimiter and line breaks.
NeedsQuotesNotForQuote(field) ==
    \E i \in DOMAIN field : field[i] \in {Comma, LF, CR}

NeedsQuotes(field) ==
    \E i \in DOMAIN field : field[i] \in {Comma, Quote, LF, CR}

RECURSIVE DoubleQuotes(_)
DoubleQuotes(field) ==
    IF field = <<>> THEN <<>>
    ELSE (IF Head(field) = Quote THEN <<Quote, Quote>> ELSE <<Head(field)>>)
         \o DoubleQuotes(Tail(field))

\* One field as the writer emits it (QuoteStyle::Necessary).
WriteField(field) ==
    IF NeedsQuotes(field) THEN <<Quote>> \o DoubleQuotes(field) \o <<Quote>>
    ELSE field

RECURSIVE JoinFields(_)
JoinFields(fields) ==
    IF Len(fields) = 0 THEN <<>>
    ELSE IF Len(fields) = 1 THEN WriteField(fields[1])
    ELSE WriteField(fields[1]) \o <<Comma>> \o JoinFields(Tail(fields))

\* writer.write_record(fields): a record of one empty field is written as
\* a pair of quotes, so that it is not read back as an empty line.
write_record(fields) ==
    IF fields = << <<>> >> THEN <<Quote, Quote, LF>>
    ELSE JoinFields(fields) \o <<LF>>

\* The reader's scanner from position i: the fields of the next record and
\* the position after it, or no record at the end of the text.  Empty lines
\* are skipped; a quote opens a quoted field only at the start of a field.
RECURSIVE ScanRecord(_, _, _, _, _)
ScanRecord(text, i, state, cur, fields) ==
    IF i > Len(text)
    THEN IF state = "StartRecord"
         THEN [found |-> FALSE, fields |-> <<>>, next |-> i]
         ELSE [found |-> TRUE, fields |-> Append(fields, cur), next |-> i]
    ELSE LET c == text[i]
         IN  CASE state = "StartRecord" ->
                    IF IsTerminator(c)
                    THEN ScanRecord(text, i + 1, "StartRecord", <<>>, fields)
                    ELSE ScanRecord(text, i, "StartField", <<>>, fields)
               [] state = "StartField" ->
                    IF c = Quote
                    THEN ScanRecord(text, i + 1, "InQuotedField", <<>>, fields)
                    ELSE IF c = Comma
                    THEN ScanRecord(text, i + 1, "StartField", <<>>, Append(fields, <<>>))
                    ELSE IF IsTerminator(c)
                    THEN [found |-> TRUE, fields |-> Append(fields, <<>>), next |-> i + 1]
                    ELSE ScanRecord(text, i + 1, "InField", <<c>>, fields)
               [] state = "InField" ->
                    IF c = Comma
                    THEN ScanRecord(text, i + 1, "StartField", <<>>, Append(fields, cur))
                    ELSE IF IsTerminator(c)
                    THEN [found |-> TRUE, fields |-> Append(fields, cur), next |-> i + 1]
                    ELSE ScanRecord(text, i + 1, "InField", Append(cur, c), fields)
               [] state = "InQuotedField" ->
                    IF c = Quote
                    THEN ScanRecord(text, i + 1, "InDoubleEscapedQuote", cur, fields)
                    ELSE ScanRecord(text, i + 1, "InQuotedField", Append(cur, c), fields)
               [] OTHER ->
                    IF c = Quote
                    THEN ScanRecord(text, i + 1, "InQuotedField", Append(cur, c), fields)
                    ELSE IF c = Comma
                    THEN ScanRecord(text, i + 1, "StartField", <<>>, Append(fields, cur))
                    ELSE IF IsTerminator(c)
                    THEN [found |-> TRUE, fields |-> Append(fields, cur), next |-> i + 1]
                    ELSE ScanRecord(text, i + 1, "InField", Append(cur, c), fields)

NextRecord(text, pos) == ScanRecord(text, pos, "StartRecord", <<>>, <<>>)

----------------------------------------------------------------------------
(* The program state.                                                      *)

VARIABLES
    env,            \* the process environment: BIRTHDATE, the local clock
                    \* (date, time of day, UTC offsets), the home directory,
                    \* whether create_dir and opening the file succeed
    fs,             \* the file system: ~/.days and ~/.days/events.csv
    pc,             \* the position of the process
    result,         \* what run returns: "running" until it does
    reader,         \* the csv::Reader of read_events
    events,         \* run's Vec<Event>, filled by read_events
    next_event,     \* the position of `for event in events`
    today,          \* run's local `today`
    past_items,     \* run's Vec<EventItem> of past events
    today_items,    \* run's Vec<EventItem> of today's events
    future_items,   \* run's Vec<EventItem> of future events
    out,            \* the standard output, one entry per print
    err,            \* the standard error, one entry per eprintln
    opens,          \* how many times events.csv has been opened
    pass,           \* codec round trip: 1 before write_events, 2 after it
    loaded          \* codec round trip: the events handed to write_events

vars == <<env, fs, pc, result, reader, events, next_event, today, past_items,
          today_items, future_items, out, err, opens, pass, loaded>>

buckets == <<past_items, today_items, future_items>>

Event(date, category, description) ==
    [date |-> date, category |-> category, description |-> description]

EventItem(days, event) == [days |-> days, event |-> event]

NoEvent == Event(NoDate, <<>>, <<>>)

\* One print to the standard output.
Line(kind, event, n) == [kind |-> kind, event |-> event, n |-> n]

\* One eprintln to the standard error.
Diagnostic(kind, text, description) ==
    [kind |-> kind, text |-> text, description |-> description]

----------------------------------------------------------------------------
(* print_birthday                                                          *)

\* DateTime<Local>::signed_duration_since: the difference of the two
\* instants.  Both local times have the same time of day; birthday_dt has
\* no sub-second part (and_hms), today keeps its nanoseconds; each local
\* time is turned into an instant by the UTC offset in force on its date.
\* The result is Duration::num_seconds of the difference: a negative
\* duration with a positive sub-second part rounds toward zero.
\* (On a local time that the zone skips or repeats on the birthdate and_hms
\* panics; the clocks of the model are taken outside such times.)
BirthdaySeconds(birthday, now, offBirth, offNow) ==
    LET secs == signed_duration_since(now.date, birthday) + offBirth - offNow
    IN  IF secs < 0 /\ now.nanos > 0 THEN secs + 1 ELSE secs

\* The match on the month alone.
IsBirthdayMonthOnly(birthday, now) == birthday.month = now.date.month

\* birthday.month() == today.month() && birthday.day() == today.day()
IsBirthday(birthday, now) ==
    birthday.month = now.date.month /\ birthday.day = now.date.day

\* The prints of print_birthday for a BIRTHDATE that parsed.
BirthdayLines(birthday, e) ==
    (IF IsBirthday(birthday, e.now)
     THEN <<Line("Happy birthday! ", NoEvent, 0)>> ELSE <<>>)
    \o <<Line("You are {} days old.", NoEvent,
              num_days(BirthdaySeconds(birthday, e.now, e.offBirth, e.offNow))),
         Line("newline", NoEvent, 0),
         Line("newline", NoEvent, 0)>>

BirthdayUnset ==
    /\ pc = "start"
    /\ ~env.birthdate.set
    /\ out' = Append(out, Line("newline", NoEvent, 0))
    /\ pc' = "path"
    /\ UNCHANGED <<env, fs, result, reader, events, next_event, today, buckets,
                   err, opens, pass, loaded>>

BirthdayValid ==
    /\ pc = "start"
    /\ env.birthdate.set
    /\ parse_from_str(env.birthdate.value).ok
    /\ out' = out \o BirthdayLines(parse_from_str(env.birthdate.value).date, env)
    /\ pc' = "path"
    /\ UNCHANGED <<env, fs, result, reader, events, next_event, today, buckets,
                   err, opens, pass, loaded>>

BirthdayInvalid ==
    /\ pc = "start"
    /\ env.birthdate.set
    /\ ~parse_from_str(env.birthdate.value).ok
    /\ err' = Append(err, Diagnostic("Error in the value of the BIRTHDATE environment variable",
                                     env.birthdate.value, <<>>))
    /\ out' = Append(out, Line("newline", NoEvent, 0))
    /\ pc' = "path"
    /\ UNCHANGED <<env, fs, result, reader, events, next_event, today, buckets,
                   opens, pass, loaded>>

print_birthday == BirthdayUnset \/ BirthdayValid \/ BirthdayInvalid

----------------------------------------------------------------------------
(* read_events                                                             *)

\* ReaderBuilder::new().has_headers(true).from_path(path): nothing read
\* yet, the header still to come, no field count fixed (0 stands for None;
\* a record has at least one field).
ReaderInit == [pos |-> 1, first |-> TRUE, count |-> 0]

\* One record off the text, with the reader's check that every record has
\* as many fields as the first one (flexible is off by default).
RawRead(text, rd) ==
    LET r == NextRecord(text, rd.pos)
    IN  IF ~r.found
        THEN [kind |-> "End", fields |-> <<>>, rd |-> [rd EXCEPT !.pos = r.next]]
        ELSE IF rd.count = 0
        THEN [kind |-> "Record", fields |-> r.fields,
              rd |-> [rd EXCEPT !.pos = r.next, !.count = Len(r.fields)]]
        ELSE IF Len(r.fields) # rd.count
        THEN [kind |-> "UnequalLengths", fields |-> r.fields,
              rd |-> [rd EXCEPT !.pos = r.next]]
        ELSE [kind |-> "Record", fields |-> r.fields,
              rd |-> [rd EXCEPT !.pos = r.next]]

\* The next item of reader.records(): the first record of the file is the
\* header and is never returned.
read_record(text, rd) ==
    IF rd.first
    THEN LET h == RawRead(text, [rd EXCEPT !.first = FALSE])
         IN  IF h.kind = "Record" THEN RawRead(text, h.rd) ELSE h
    ELSE RawRead(text, rd)

\* from_path(path)? succeeds.
ReadOpen ==
    /\ pc = "open"
    /\ env.readable
    /\ reader' = ReaderInit
    /\ opens' = opens + 1
    /\ pc' = "read"
    /\ UNCHANGED <<env, fs, result, events, next_event, today, buckets, out,
                   err, pass, loaded>>

\* from_path(path)? fails: read_events returns the I/O error.
ReadOpenFailed ==
    /\ pc = "open"
    /\ ~env.readable
    /\ opens' = opens + 1
    /\ pc' = "read_err"
    /\ UNCHANGED <<env, fs, result, reader, events, next_event, today, buckets,
                   out, err, pass, loaded>>

\* A record whose date parses: the event is pushed.
ReadRecordPush ==
    /\ pc = "read"
    /\ LET r == read_record(fs.text, reader)
       IN  /\ r.kind = "Record"
           /\ Len(r.fields) >= 3
           /\ parse_from_str(r.fields[1]).ok
           /\ events' = Append(events, Event(parse_from_str(r.fields[1]).date,
                                             r.fields[2], r.fields[3]))
           /\ reader' = r.rd
    /\ UNCHANGED <<env, fs, pc, result, next_event, today, buckets, out, err,
                   opens, pass, loaded>>

\* The parse error propagated with `?` instead of being reported: the load
\* fails on the row.
ReadRecordInvalidFails ==
    /\ pc = "read"
    /\ LET r == read_record(fs.text, reader)
       IN  /\ r.kind = "Record"
           /\ Len(r.fields) >= 3
           /\ ~parse_from_str(r.fields[1]).ok
           /\ reader' = r.rd
    /\ pc' = "read_err"
    /\ UNCHANGED <<env, fs, result, events, next_event, today, buckets, out,
                   err, opens, pass, loaded>>

\* A record whose date does not parse: one diagnostic, no event, and the
\* loop goes on.
ReadRecordInvalid ==
    /\ pc = "read"
    /\ LET r == read_record(fs.text, reader)
       IN  /\ r.kind = "Record"
           /\ Len(r.fields) >= 3
           /\ ~parse_from_str(r.fields[1]).ok
           /\ err' = Append(err, Diagnostic("Invalid timestamp", r.fields[1], r.fields[3]))
           /\ reader' = r.rd
    /\ UNCHANGED <<env, fs, pc, result, events, next_event, today, buckets, out,
                   opens, pass, loaded>>

\* `let record = result?;` on a record with another number of fields than
\* the header: read_events returns the csv error.
ReadRecordUnequal ==
    /\ pc = "read"
    /\ LET r == read_record(fs.text, reader)
       IN  /\ r.kind = "UnequalLengths"
           /\ reader' = r.rd
    /\ pc' = "read_err"
    /\ UNCHANGED <<env, fs, result, events, next_event, today, buckets, out,
                   err, opens, pass, loaded>>

\* record[1] or record[2] on a record of fewer than three fields (the header
\* has as few): the index panics and the process aborts.
ReadRecordIndexPanic ==
    /\ pc = "read"
    /\ LET r == read_record(fs.text, reader)
       IN  /\ r.kind = "Record"
           /\ Len(r.fields) < 3
           /\ reader' = r.rd
    /\ result' = "panic"
    /\ pc' = "panicked"
    /\ UNCHANGED <<env, fs, events, next_event, today, buckets, out, err,
                   opens, pass, loaded>>

\* No record is left: Ok(()).
ReadEnd ==
    /\ pc = "read"
    /\ LET r == read_record(fs.text, reader)
       IN  /\ r.kind = "End"
           /\ reader' = r.rd
    /\ pc' = "read_ok"
    /\ UNCHANGED <<env, fs, result, events, next_event, today, buckets, out,
                   err, opens, pass, loaded>>

read_events ==
    \/ ReadOpen
    \/ ReadOpenFailed
    \/ ReadRecordPush
    \/ ReadRecordInvalid
    \/ ReadRecordUnequal
    \/ ReadRecordIndexPanic
    \/ ReadEnd

----------------------------------------------------------------------------
(* write_events                                                            *)

Header == << <<"d", "a", "t", "e">>,
             <<"c", "a", "t", "e", "g", "o", "r", "y">>,
             <<"d", "e", "s", "c", "r", "i", "p", "t", "i", "o", "n">> >>

EncodeRow(event) == <<to_string(event.date), event.category, event.description>>

RECURSIVE WriteRecords(_)
WriteRecords(records) ==
    IF records = <<>> THEN <<>>
    ELSE write_record(Head(records)) \o WriteRecords(Tail(records))

\* The text write_events leaves in the file: the header, then one record
\* per event in the order given.
WrittenText(evs) ==
    write_record(Header) \o WriteRecords([i \in DOMAIN evs |-> EncodeRow(evs[i])])

\* write_events(events, path), the vector moved into it; the driver of the
\* round trip keeps what was written and reads the file back into a fresh
\* vector.
write_events ==
    /\ pc = "write"
    /\ loaded' = events
    /\ fs' = [fs EXCEPT !.exists = TRUE, !.text = WrittenText(events)]
    /\ events' = <<>>
    /\ pass' = 2
    /\ pc' = "open"
    /\ UNCHANGED <<env, result, reader, next_event, today, buckets, out, err,
                   opens>>

----------------------------------------------------------------------------
(* run: the working directory and the events file                          *)

\* get_days_path returns None: no home directory.
RunNoHome ==
    /\ pc = "path"
    /\ ~env.home
    /\ err' = err \o <<Diagnostic("No home directory for user", <<>>, <<>>),
                       Diagnostic(".days path not found!", <<>>, <<>>)>>
    /\ result' = "WorkingDirectoryNotFound"
    /\ pc' = "done"
    /\ UNCHANGED <<env, fs, reader, events, next_event, today, buckets, out,
                   opens, pass, loaded>>

RunDirExists ==
    /\ pc = "path"
    /\ env.home
    /\ fs.dir
    /\ pc' = "exists"
    /\ UNCHANGED <<env, fs, result, reader, events, next_event, today, buckets,
                   out, err, opens, pass, loaded>>

RunCreateDir ==
    /\ pc = "path"
    /\ env.home
    /\ ~fs.dir
    /\ env.mkdirOk
    /\ fs' = [fs EXCEPT !.dir = TRUE]
    /\ pc' = "exists"
    /\ UNCHANGED <<env, result, reader, events, next_event, today, buckets,
                   out, err, opens, pass, loaded>>

RunCreateDirFailed ==
    /\ pc = "path"
    /\ env.home
    /\ ~fs.dir
    /\ ~env.mkdirOk
    /\ result' = "CreateError"
    /\ pc' = "done"
    /\ UNCHANGED <<env, fs, reader, events, next_event, today, buckets, out,
                   err, opens, pass, loaded>>

\* The seeding policy: an absent file is created with one event of today.
RunFileAbsentSeeds ==
    /\ pc = "exists"
    /\ ~fs.exists
    /\ fs' = [fs EXCEPT !.exists = TRUE,
                        !.text = WrittenText(<<Event(env.now.date, <<>>, <<"a">>)>>)]
    /\ pc' = "present_past"
    /\ UNCHANGED <<env, result, reader, events, next_event, today, buckets,
                   out, err, opens, pass, loaded>>

\* events_path.as_path().exists() is false: nothing is loaded and nothing
\* is written; run goes on to the presentation of its empty vectors.
RunFileAbsent ==
    /\ pc = "exists"
    /\ ~fs.exists
    /\ pc' = "present_past"
    /\ UNCHANGED <<env, fs, result, reader, events, next_event, today, buckets,
                   out, err, opens, pass, loaded>>

RunFilePresent ==
    /\ pc = "exists"
    /\ fs.exists
    /\ pc' = "open"
    /\ UNCHANGED <<env, fs, result, reader, events, next_event, today, buckets,
                   out, err, opens, pass, loaded>>

----------------------------------------------------------------------------
(* run: classification                                                     *)

\* read_events returned Err.
RunReadFailed ==
    /\ pc = "read_err"
    /\ err' = Append(err, Diagnostic("Error reading events", <<>>, <<>>))
    /\ result' = "ReadError"
    /\ pc' = "done"
    /\ UNCHANGED <<env, fs, reader, events, next_event, today, buckets, out,
                   opens, pass, loaded>>

\* let now = Local::now(); let today = NaiveDate::from_ymd_opt(...).
RunToday ==
    /\ pc = "read_ok"
    /\ IF from_ymd_opt(env.now.date.year, env.now.date.month, env.now.date.day)
       THEN /\ today' = env.now.date
            /\ pc' = IF Len(events) = 0 THEN "present_past" ELSE "classify"
            /\ UNCHANGED result
       ELSE /\ result' = "InvalidDate"
            /\ pc' = "done"
            /\ UNCHANGED today
    /\ next_event' = 1
    /\ UNCHANGED <<env, fs, reader, events, buckets, out, err, opens, pass,
                   loaded>>

\* The difference taken the other way round: today minus the event's date.
day_countReversed(event, t) == num_days(signed_duration_since(t, event.date))

\* let diff = event.date.signed_duration_since(today.unwrap());
\* let day_count = diff.num_days();
day_count(event, t) == num_days(signed_duration_since(event.date, t))

AfterEvent == IF next_event = Len(events) THEN "present_past" ELSE "classify"

ClassifyPast ==
    /\ pc = "classify"
    /\ LET event == events[next_event]
       IN  /\ day_count(event, today) < 0
           /\ out' = Append(out, Line("Found past event", event, 0))
           /\ past_items' = Append(past_items, EventItem(day_count(event, today), event))
    /\ next_event' = next_event + 1
    /\ pc' = AfterEvent
    /\ UNCHANGED <<env, fs, result, reader, events, today, today_items,
                   future_items, err, opens, pass, loaded>>

ClassifyFuture ==
    /\ pc = "classify"
    /\ LET event == events[next_event]
       IN  /\ ~(day_count(event, today) < 0)
           /\ day_count(event, today) > 0
           /\ future_items' = Append(future_items, EventItem(day_count(event, today), event))
    /\ next_event' = next_event + 1
    /\ pc' = AfterEvent
    /\ UNCHANGED <<env, fs, result, reader, events, today, past_items,
                   today_items, out, err, opens, pass, loaded>>

\* The chain without its final else: an event of today is taken and put in
\* no vector.
ClassifyTodayDropped ==
    /\ pc = "classify"
    /\ LET event == events[next_event]
       IN  /\ ~(day_count(event, today) < 0)
           /\ ~(day_count(event, today) > 0)
    /\ next_event' = next_event + 1
    /\ pc' = AfterEvent
    /\ UNCHANGED <<env, fs, result, reader, events, today, buckets, out, err,
                   opens, pass, loaded>>

ClassifyToday ==
    /\ pc = "classify"
    /\ LET event == events[next_event]
       IN  /\ ~(day_count(event, today) < 0)
           /\ ~(day_count(event, today) > 0)
           /\ today_items' = Append(today_items, EventItem(day_count(event, today), event))
    /\ next_event' = next_event + 1
    /\ pc' = AfterEvent
    /\ UNCHANGED <<env, fs, result, reader, events, today, past_items,
                   future_items, out, err, opens, pass, loaded>>

----------------------------------------------------------------------------
(* run: presentation                                                       *)

\* The past comparator written like the future one: a.days.cmp(&b.days).
PastOrderAscending(a, b) == a.days <= b.days

\* The comparator of past_items.sort_by: b.days.cmp(&a.days) is not Greater,
\* that is, a may stay before b.
PastOrder(a, b) == b.days <= a.days

\* The comparator of future_items.sort_by: a.days.cmp(&b.days).
FutureOrder(a, b) == a.days <= b.days

\* The closure handed to sort_by, named by the vector it sorts.
Before(order, a, b) ==
    IF order = "past" THEN PastOrder(a, b) ELSE FutureOrder(a, b)

\* slice::sort_by is stable: an item goes after every item it may not
\* precede and after the equal ones already placed.
RECURSIVE InsertSorted(_, _, _)
InsertSorted(sorted, item, order) ==
    IF sorted = <<>> THEN <<item>>
    ELSE IF Before(order, Head(sorted), item)
    THEN <<Head(sorted)>> \o InsertSorted(Tail(sorted), item, order)
    ELSE <<item>> \o sorted

RECURSIVE sort_by(_, _)
sort_by(items, order) ==
    IF items = <<>> THEN <<>>
    ELSE InsertSorted(sort_by(SubSeq(items, 1, Len(items) - 1), order),
                      items[Len(items)], order)

PastLines(items) ==
    [i \in DOMAIN items |-> Line("days ago", items[i].event, Abs(items[i].days))]

TodayLines(items) ==
    [i \in DOMAIN items |-> Line("today", items[i].event, 0)]

FutureLines(items) ==
    [i \in DOMAIN items |-> Line("in days", items[i].event, items[i].days)]

PresentPast ==
    /\ pc = "present_past"
    /\ IF Len(past_items) # 0
       THEN /\ past_items' = sort_by(past_items, "past")
            /\ out' = out \o PastLines(sort_by(past_items, "past"))
       ELSE UNCHANGED <<past_items, out>>
    /\ pc' = "present_today"
    /\ UNCHANGED <<env, fs, result, reader, events, next_event, today,
                   today_items, future_items, err, opens, pass, loaded>>

PresentToday ==
    /\ pc = "present_today"
    /\ IF Len(today_items) # 0
       THEN out' = out \o TodayLines(today_items)
       ELSE UNCHANGED out
    /\ pc' = "present_future"
    /\ UNCHANGED <<env, fs, result, reader, events, next_event, today, buckets,
                   err, opens, pass, loaded>>

\* The future block, the closing println!() and Ok(()).
PresentFuture ==
    /\ pc = "present_future"
    /\ IF Len(future_items) # 0
       THEN /\ future_items' = sort_by(future_items, "future")
            /\ out' = out \o FutureLines(sort_by(future_items, "future"))
                          \o <<Line("newline", NoEvent, 0)>>
       ELSE /\ out' = Append(out, Line("newline", NoEvent, 0))
            /\ UNCHANGED future_items
    /\ result' = "Ok"
    /\ pc' = "done"
    /\ UNCHANGED <<env, fs, reader, events, next_event, today, past_items,
                   today_items, err, opens, pass, loaded>>

----------------------------------------------------------------------------
(* The inputs of the model.                                                *)

\* The longest file of well-formed rows.
MaxEvents == 3

\* The longest file that mixes well-formed and malformed rows.
MaxRows == 2

SeqsUpTo(S, n) == UNION {[1..k -> S] : k \in 0..n}

FileOf(header, rows) == write_record(header) \o WriteRecords(rows)

NotADate == <<"n", "o", "t", "-", "a", "-", "d", "a", "t", "e">>

\* A date of the right shape that is no calendar date.
NoSuchDay == <<"2", "0", "2", "4", "-", "0", "2", "-", "3", "0">>

\* Month and day without their leading zeros: chrono accepts them.
ShortDate == <<"2", "0", "2", "4", "-", "3", "-", "6">>

Cat == <<"c">>
DescA == <<"a">>
DescB == <<"b">>

\* The clock of the run: a day with events on both sides, across the leap
\* day of 2024, a day before all of them in the year before, and a day
\* after all of them in the year after.
RunDays == {Date(2024, 3, 5), Date(2023, 12, 31), Date(2025, 1, 1)}

\* The dates of the events: 2024-03-05 and 1, 5 and 10 days around it.
EventDates == {Date(2024, 2, 24), Date(2024, 2, 29), Date(2024, 3, 4),
               Date(2024, 3, 5), Date(2024, 3, 6), Date(2024, 3, 10),
               Date(2024, 3, 15)}

GoodRows ==
    {EncodeRow(Event(d, Cat, DescA)) : d \in EventDates}
    \cup {EncodeRow(Event(Date(2024, 3, 4), Cat, DescB))}

ShortRow == <<to_string(Date(2024, 3, 4)), DescA>>

LongRow == <<to_string(Date(2024, 3, 6)), Cat, DescA, DescB>>

MixedRows ==
    {<<NotADate, Cat, DescB>>, <<NoSuchDay, Cat, DescA>>, ShortRow, LongRow,
     EncodeRow(Event(Date(2024, 3, 4), Cat, DescA)),
     <<ShortDate, Cat, DescA>>}

\* A header of two columns, as of a file of another schema.
ShortHeader == <<Header[1], Header[3]>>

RunFiles ==
    {FileOf(Header, rows) :
        rows \in SeqsUpTo(GoodRows, MaxEvents) \cup SeqsUpTo(MixedRows, MaxRows)}
    \cup {<<>>, FileOf(ShortHeader, <<ShortRow>>)}

Unset == [set |-> FALSE, value |-> <<>>]

SetTo(text) == [set |-> TRUE, value |-> text]

Clock(date, secs, nanos) == [date |-> date, secs |-> secs, nanos |-> nanos]

Env(birthdate, now, offBirth, offNow, home, mkdirOk, readable) ==
    [birthdate |-> birthdate, now |-> now, offBirth |-> offBirth,
     offNow |-> offNow, home |-> home, mkdirOk |-> mkdirOk,
     readable |-> readable]

Fs(dir, exists, text) == [dir |-> dir, exists |-> exists, text |-> text]

\* The state after construction: nothing read, nothing printed.
InitProcess ==
    /\ result = "running"
    /\ reader = ReaderInit
    /\ events = <<>>
    /\ next_event = 1
    /\ today = NoDate
    /\ past_items = <<>>
    /\ today_items = <<>>
    /\ future_items = <<>>
    /\ out = <<>>
    /\ err = <<>>
    /\ opens = 0
    /\ pass = 1
    /\ loaded = <<>>

RunBirthdates == {Unset, SetTo(NotADate), SetTo(to_string(Date(1990, 3, 5)))}

RunEnv(b, day, home, mkdirOk, readable) ==
    Env(b, Clock(day, 43200, 0), 7200, 7200, home, mkdirOk, readable)

\* A run of the tool: every file of RunFiles in an existing ~/.days, and
\* the runs without a home directory, without ~/.days (created or not),
\* without events.csv, and with an events.csv that cannot be opened.
Init ==
    /\ InitProcess
    /\ pc = "start"
    /\ \E day \in RunDays :
          \/ /\ env = RunEnv(SetTo(to_string(Date(1990, 3, 5))), day, TRUE, TRUE, TRUE)
             /\ fs \in {Fs(TRUE, TRUE, text) : text \in RunFiles}
          \/ /\ env \in {RunEnv(b, day, TRUE, TRUE, TRUE) : b \in RunBirthdates}
             /\ fs \in {Fs(TRUE, FALSE, <<>>), Fs(FALSE, FALSE, <<>>),
                        Fs(TRUE, TRUE, FileOf(Header, <<>>))}
          \/ /\ env = RunEnv(Unset, day, FALSE, TRUE, TRUE)
             /\ fs = Fs(FALSE, FALSE, <<>>)
          \/ /\ env = RunEnv(Unset, day, TRUE, FALSE, TRUE)
             /\ fs = Fs(FALSE, FALSE, <<>>)
          \/ /\ env = RunEnv(Unset, day, TRUE, TRUE, FALSE)
             /\ fs = Fs(TRUE, TRUE, FileOf(Header, <<>>))

Next ==
    \/ print_birthday
    \/ RunNoHome
    \/ RunDirExists
    \/ RunCreateDir
    \/ RunCreateDirFailed
    \/ RunFileAbsent
    \/ RunFilePresent
    \/ read_events
    \/ RunReadFailed
    \/ RunToday
    \/ ClassifyPast
    \/ ClassifyFuture
    \/ ClassifyToday
    \/ PresentPast
    \/ PresentToday
    \/ PresentFuture

Spec == Init /\ [][Next]_vars

----------------------------------------------------------------------------
(* print_birthday alone, over birthdates, clocks and UTC offsets.          *)

BirthdayValues ==
    {Unset, SetTo(NotADate), SetTo(NoSuchDay)}
    \cup {SetTo(to_string(d)) :
            d \in {Date(1990, 3, 15), Date(2000, 2, 29), Date(2023, 3, 15),
                   Date(2023, 10, 30), Date(2024, 3, 15), Date(2024, 3, 16),
                   Date(2030, 3, 15)}}

BirthdayClocks ==
    {Clock(d, secs, nanos) :
        d \in {Date(2024, 3, 15), Date(2024, 2, 29), Date(2024, 7, 15)},
        secs \in {0, 43200, 86399},
        nanos \in {0, 500000000}}

\* The UTC offsets of a zone with daylight saving time (+02:00, +03:00).
Offsets == {7200, 10800}

InitBirthday ==
    /\ InitProcess
    /\ pc = "start"
    /\ fs = Fs(FALSE, FALSE, <<>>)
    /\ env \in {Env(b, now, ob, on, TRUE, TRUE, TRUE) :
                  b \in BirthdayValues, now \in BirthdayClocks,
                  ob \in Offsets, on \in Offsets}

NextBirthday == print_birthday

SpecBirthday == InitBirthday /\ [][NextBirthday]_vars

----------------------------------------------------------------------------------------------------------------------------------------
(* The codec round trip: write_events of a vector of events, then          *)
(* read_events of the file it wrote.                                       *)

CodecDates ==
    {Date(2024, 2, 29), Date(-1, 12, 31), Date(10000, 1, 1), Date(999, 1, 5)}

CodecFieldTexts ==
    {<<>>, <<"a", Comma, "b">>, <<Quote, "a", Quote>>, <<"a", LF, CR>>}

CodecEvents ==
    {Event(d, f, <<Quote, Comma>>) : d \in CodecDates, f \in CodecFieldTexts}
    \cup {Event(Date(2024, 2, 29), DescA, f) : f \in CodecFieldTexts}

InitCodec ==
    /\ result = "running"
    /\ reader = ReaderInit
    /\ events \in SeqsUpTo(CodecEvents, MaxRows)
    /\ next_event = 1
    /\ today = NoDate
    /\ past_items = <<>>
    /\ today_items = <<>>
    /\ future_items = <<>>
    /\ out = <<>>
    /\ err = <<>>
    /\ opens = 0
    /\ pass = 1
    /\ loaded = <<>>
    /\ pc = "write"
    /\ env = RunEnv(Unset, Date(2024, 3, 5), TRUE, TRUE, TRUE)
    /\ fs = Fs(TRUE, FALSE, <<>>)

\* The file write_events wrote is opened and read to its end; the steps
\* of read_events that report or fail on a row are those the round trip
\* must never need (C6 states that it never does).
NextCodec == write_events \/ ReadOpen \/ ReadRecordPush \/ ReadEnd

SpecCodec == InitCodec /\ [][NextCodec]_vars

----------------------------------------------------------------------------
(* What the claims are stated with: the calendar and the file read as a    *)
(* whole, independently of the steps above.                                *)

\* The number of a calendar day, counted in whole days (the civil-calendar
\* count by years starting in March); days_between(a, b) is the difference.
DayNumber(date) ==
    LET y  == IF date.month <= 2 THEN date.year - 1 ELSE date.year
        mp == (date.month + 9) % 12
    IN  365 * y + (y \div 4) - (y \div 100) + (y \div 400)
        + ((153 * mp + 2) \div 5) + date.day

days_between(a, b) == DayNumber(b) - DayNumber(a)

\* The calendar day after a date.
NextDay(date) ==
    IF date.day < DaysInMonth(date.year, date.month)
    THEN Date(date.year, date.month, date.day + 1)
    ELSE IF date.month < 12 THEN Date(date.year, date.month + 1, 1)
    ELSE Date(date.year + 1, 1, 1)

Range(seq) == {seq[i] : i \in DOMAIN seq}

Count(seq, v) == Cardinality({i \in DOMAIN seq : seq[i] = v})

EventsOf(items) == [i \in DOMAIN items |-> items[i].event]

LinesOfKind(kind) == SelectSeq(out, LAMBDA l : l.kind = kind)

\* Every record of a text, the header first.
RECURSIVE RecordsFrom(_, _)
RecordsFrom(text, pos) ==
    LET r == NextRecord(text, pos)
    IN  IF r.found THEN <<r.fields>> \o RecordsFrom(text, r.next) ELSE <<>>

AllRecords(text) == RecordsFrom(text, 1)

DataRecords(text) == Tail(AllRecords(text))

\* Records that all have the three fields of the format, the header too.
WellShaped(records) ==
    /\ records # <<>>
    /\ \A i \in DOMAIN records : Len(records[i]) = 3

DateParses(record) == parse_from_str(record[1]).ok

DateFails(record) == ~parse_from_str(record[1]).ok

DecodedRow(record) == Event(parse_from_str(record[1]).date, record[2], record[3])

RowDiagnostic(record) == Diagnostic("Invalid timestamp", record[1], record[3])

\* The events of the data records whose date parses, in their order.
ExpectedEvents(records) ==
    LET good == SelectSeq(Tail(records), DateParses)
    IN  [i \in DOMAIN good |-> DecodedRow(good[i])]

\* The diagnostics of the data records whose date does not parse.
ExpectedDiagnostics(records) ==
    LET bad == SelectSeq(Tail(records), DateFails)
    IN  [i \in DOMAIN bad |-> RowDiagnostic(bad[i])]

RowDiagnostics == SelectSeq(err, LAMBDA d : d.kind = "Invalid timestamp")

LoadFinished ==
    pc \in {"read_ok", "read_err", "panicked", "classify", "present_past",
            "present_today", "present_future", "done"}

Presenting == pc \in {"present_past", "present_today", "present_future", "done"}

AllItems == past_items \o today_items \o future_items

----------------------------------------------------------------------------
(* The claims.                                                             *)

\* C1: exhaustive partition.  At every point of the run the three buckets
\* hold exactly the events the classification loop has taken so far, each
\* once (as many times as it was loaded), so the bucket sizes sum to the
\* number of events taken; and once the presentation starts every loaded
\* event has been taken.
C1_ExhaustivePartition ==
    /\ Len(past_items) + Len(today_items) + Len(future_items) = next_event - 1
    /\ \A e \in Range(events) :
          Count(EventsOf(past_items), e) + Count(EventsOf(today_items), e)
          + Count(EventsOf(future_items), e)
          = Count(SubSeq(events, 1, next_event - 1), e)
    /\ \A e \in Range(EventsOf(AllItems)) : e \in Range(events)
    /\ (Presenting /\ result \in {"running", "Ok"}) => next_event - 1 = Len(events)

C1_Witness ==
    /\ pc = "done"
    /\ result = "Ok"
    /\ Len(past_items) = 1
    /\ Len(today_items) = 1
    /\ Len(future_items) = 1

\* C2: sign correctness.  Every stored offset is the whole-calendar-day
\* count from today to the event's date, past items have a negative offset,
\* today's items offset zero, future items a positive one; the day before
\* today has offset -1 and is in past, the day after has offset 1 and is in
\* future, and today has offset 0.
C2_SignCorrectness ==
    /\ \A i \in DOMAIN AllItems :
          /\ AllItems[i].days = days_between(today, AllItems[i].event.date)
          /\ NextDay(AllItems[i].event.date) = today =>
                AllItems[i].days = -1 /\ AllItems[i] \in Range(past_items)
          /\ AllItems[i].event.date = NextDay(today) =>
                AllItems[i].days = 1 /\ AllItems[i] \in Range(future_items)
          /\ AllItems[i].event.date = today => AllItems[i].days = 0
    /\ \A i \in DOMAIN past_items : past_items[i].days < 0
    /\ \A i \in DOMAIN today_items : today_items[i].days = 0
    /\ \A i \in DOMAIN future_items : future_items[i].days > 0

C2_Witness ==
    /\ pc = "done"
    /\ \E i \in DOMAIN past_items :
          past_items[i].days = -1 /\ NextDay(past_items[i].event.date) = today
    /\ \E i \in DOMAIN future_items :
          future_items[i].days = 1 /\ future_items[i].event.date = NextDay(today)
    /\ \E i \in DOMAIN today_items : today_items[i].event.date = today

\* C3: ordering.  Once a bucket has been rendered, its lines are the
\* bucket's items, each once; the past lines run from the most recent event
\* to the oldest (descending offset, shown as the number of days ago), the
\* future lines from the soonest to the latest (ascending offset).
C3_Ordering ==
    /\ pc \in {"present_today", "present_future", "done"} /\ result \in {"running", "Ok"} =>
          LET lines == LinesOfKind("days ago")
          IN  /\ Len(lines) = Len(past_items)
              /\ \A e \in Range(events) :
                    Count([i \in DOMAIN lines |-> lines[i].event], e)
                    = Count(EventsOf(past_items), e)
              /\ \A i \in DOMAIN lines :
                    lines[i].n = Abs(days_between(today, lines[i].event.date))
              /\ \A i, j \in DOMAIN lines :
                    i < j => /\ lines[i].n <= lines[j].n
                             /\ days_between(today, lines[i].event.date)
                                >= days_between(today, lines[j].event.date)
    /\ pc = "done" /\ result = "Ok" =>
          LET lines == LinesOfKind("in days")
          IN  /\ Len(lines) = Len(future_items)
              /\ \A e \in Range(events) :
                    Count([i \in DOMAIN lines |-> lines[i].event], e)
                    = Count(EventsOf(future_items), e)
              /\ \A i \in DOMAIN lines :
                    lines[i].n = days_between(today, lines[i].event.date)
              /\ \A i, j \in DOMAIN lines : i < j => lines[i].n <= lines[j].n

\* Events loaded at offsets -5, -1, -10 are rendered as 1, 5, 10 days ago.
C3_Witness ==
    /\ pc = "done"
    /\ Len(events) = 3
    /\ [i \in 1..3 |-> days_between(today, events[i].date)] = <<-5, -1, -10>>
    /\ [i \in 1..3 |-> LinesOfKind("days ago")[i].n] = <<1, 5, 10>>

\* C4: malformed-row tolerance.  When every record of the file has the
\* three fields of the format, a row whose date does not parse yields one
\* diagnostic and no event, the rows after it are still read, and the load
\* ends Ok: the events loaded are exactly the rows whose date parses, in
\* file order, and the diagnostics exactly the other rows, in file order.
C4_MalformedRowTolerated ==
    (LoadFinished /\ env.readable /\ fs.exists) =>
        LET records == AllRecords(fs.text)
        IN  WellShaped(records) =>
                /\ pc \notin {"read_err", "panicked"}
                /\ result \notin {"ReadError", "panic"}
                /\ events = ExpectedEvents(records)
                /\ RowDiagnostics = ExpectedDiagnostics(records)

\* The malformed row comes first, a well-formed row follows and is loaded.
C4_Witness ==
    /\ pc = "done"
    /\ result = "Ok"
    /\ WellShaped(AllRecords(fs.text))
    /\ Len(DataRecords(fs.text)) = 2
    /\ DataRecords(fs.text)[1][1] = NotADate
    /\ Len(events) = 1
    /\ RowDiagnostics = <<Diagnostic("Invalid timestamp", NotADate, DescB)>>

\* C5 (as claimed): with a readable file whose header is the format's, no
\* defect of a single data record makes the load fail or aborts the run.
C5_RecordDefectNeverFailsLoad ==
    (fs.exists /\ env.readable /\ AllRecords(fs.text) # <<>>
              /\ Head(AllRecords(fs.text)) = Header) =>
        /\ pc # "read_err"
        /\ result \notin {"ReadError", "panic"}

\* C6: round trip.  The file write_events leaves starts with the header
\* date,category,description; reading it back never fails and never skips
\* a row, and yields the events written, field for field and in order.
\* A date of a year 0..9999 is written as YYYY-MM-DD.
IsIsoDate(text) ==
    /\ Len(text) = 10
    /\ \A i \in {1, 2, 3, 4, 6, 7, 9, 10} : IsDigit(text[i])
    /\ text[5] = "-"
    /\ text[8] = "-"

C6_RoundTrip ==
    pass = 2 =>
        /\ Head(AllRecords(fs.text)) = Header
        /\ Len(DataRecords(fs.text)) = Len(loaded)
        /\ \A i \in DOMAIN loaded :
              loaded[i].date.year \in 0..9999 => IsIsoDate(DataRecords(fs.text)[i][1])
        /\ pc \in {"open", "read", "read_ok"}
        /\ err = <<>>
        /\ pc = "read" =>
              /\ Len(events) <= Len(loaded)
              /\ events = SubSeq(loaded, 1, Len(events))
              /\ LET r == read_record(fs.text, reader)
                 IN  \/ r.kind = "End"
                     \/ /\ r.kind = "Record"
                        /\ Len(r.fields) = 3
                        /\ parse_from_str(r.fields[1]).ok
        /\ pc = "read_ok" => events = loaded

\* Two events come back, one with a field that needs quoting and one of a
\* year written with a sign.
C6_Witness ==
    /\ pass = 2
    /\ pc = "read_ok"
    /\ Len(events) = 2
    /\ events = loaded
    /\ \E i \in DOMAIN events : NeedsQuotes(events[i].category)
    /\ \E i \in DOMAIN events : events[i].date.year \notin 0..9999

\* C7 (as claimed): the day count print_birthday prints is the
\* whole-calendar-day difference between the birthdate and today's date,
\* whatever the time of day and the UTC offsets on the two days.
C7_AgeIsCalendarDifference ==
    \A i \in DOMAIN out :
        out[i].kind = "You are {} days old." =>
            out[i].n = days_between(parse_from_str(env.birthdate.value).date, env.now.date)

\* C8 (as claimed): the classification of the loaded events prints nothing,
\* to the standard output or to the standard error.
C8_ClassificationPrintsNothing ==
    [][pc = "classify" => (out' = out /\ err' = err)]_vars

C10_RunNeverWritesFile ==
    /\ [][fs'.exists = fs.exists /\ fs'.text = fs.text]_vars
    /\ [](opens <= 1)
    /\ []((pc = "done" /\ fs.dir /\ ~fs.exists) =>
              /\ result = "Ok"
              /\ opens = 0
              /\ events = <<>>
              /\ \A i \in DOMAIN out : out[i].event = NoEvent)

\* events.csv is absent at the end of a run that ended Ok.
C10_Witness ==
    /\ pc = "done"
    /\ result = "Ok"
    /\ ~fs.exists
    /\ opens = 0
    /\ out # <<>>

====
